---- MODULE Spec2Model ----
(***************************************************************************)
(* Checkstyle XML -> SARIF 2.1.0 conversion (checkstyle-to-sarif).         *)
(*                                                                         *)
(* parseCheckstyleXml turns the tokenizer's tree into a CheckstyleReport,  *)
(* convertToSarif scans the report file by file, error by error, and       *)
(* assembles the SARIF log.  Strings are sequences of one-character        *)
(* strings, so that split, toLowerCase, replaceAll, startsWith and the     *)
(* drive-letter test are computed character by character.  A JavaScript   *)
(* value is a record tagged by t: undefined, a string, a number, NaN or an *)
(* object; an object with optional keys is a function whose DOMAIN is the  *)
(* set of keys it has.                                                     *)
(***************************************************************************)
EXTENDS Integers, Sequences, FiniteSets, TLC

VARIABLES
  xml,          \* the input text handed to parseCheckstyleXml (as its element tree)
  pc,           \* "input" | "parsed" | "scan" | "done" | "returned" | "failed"
  report,       \* the CheckstyleReport returned by parseCheckstyleXml
  thrown,       \* the error raised by parseCheckstyleXml, or undefined
  impl,         \* which definition of convertToSarif in converter.ts runs
  toolVersion,  \* the toolVersion argument of convertToSarif
  ruleMap,      \* Map<string, ReportingDescriptor>, insertion ordered
  ruleIndexMap, \* Map<string, number>
  results,      \* Result[]
  fi,           \* index of the file the outer loop is in (0 before the first)
  ei,           \* index of the next error of that file
  fileUri,      \* pathToUri(file.name) of the current file
  sarifLog,     \* the SarifLog returned by convertToSarif
  tokenized,    \* whether this call has invoked parser.parse
  json,         \* the text returned by convertCheckstyleToSarif
  seen,         \* what convertCheckstyleToSarif has returned so far, per input and indent
  calls         \* number of conversion calls started

vars == <<xml, pc, report, thrown, impl, toolVersion, ruleMap, ruleIndexMap,
          results, fi, ei, fileUri, sarifLog, tokenized, json, seen, calls>>

----------------------------------------------------------------------------
(* Bounds of the model *)

MaxFiles == 2
MaxErrors == 2
MaxNameLen == 3
MaxSourceLen == 3
MaxCalls == 3

----------------------------------------------------------------------------
(* JavaScript values *)

Undef == [t |-> "undefined"]
NaN == [t |-> "NaN"]
Str(s) == [t |-> "string", s |-> s]
\* the number m / 10^d
Dec(m, d) == [t |-> "number", m |-> m, d |-> d]
Num(n) == Dec(n, 0)
EmptyObj == [k \in {} |-> Undef]

IsUndef(v) == v.t = "undefined"
IsStr(v) == v.t = "string"
IsObj(v) == v.t = "object"

\* a ?? b
Coalesce(a, b) == IF IsUndef(a) THEN b ELSE a

\* String(v) for the values an attribute lookup can give
String(v) == IF IsStr(v) THEN v.s ELSE <<>>

\* truthiness of a string: '' is falsy
Truthy(s) == s # <<>>

----------------------------------------------------------------------------
(* Characters *)

UpperCase == <<"A","B","C","D","E","F","G","H","I","J","K","L","M",
               "N","O","P","Q","R","S","T","U","V","W","X","Y","Z">>
LowerCase == <<"a","b","c","d","e","f","g","h","i","j","k","l","m",
               "n","o","p","q","r","s","t","u","v","w","x","y","z">>
Digits == <<"0","1","2","3","4","5","6","7","8","9">>

Range(f) == {f[i] : i \in DOMAIN f}
IndexOf(seq, c) == CHOOSE i \in DOMAIN seq : seq[i] = c

IsLetter(c) == c \in Range(UpperCase) \cup Range(LowerCase)
IsDigit(c) == c \in Range(Digits)
IsSpace(c) == c \in {" ", "\n", "\t"}

toLowerCaseChar(c) ==
  IF c \in Range(UpperCase) THEN LowerCase[IndexOf(UpperCase, c)] ELSE c

\* String.prototype.toLowerCase
toLowerCase(s) == [i \in DOMAIN s |-> toLowerCaseChar(s[i])]

\* String.prototype.replaceAll(from, to) for one-character from and to
\* a replacement of the first occurrence only
replaceAll_First(s, from, to) ==
  [i \in DOMAIN s |->
     IF s[i] = from /\ \A j \in 1..(i - 1) : s[j] # from THEN to ELSE s[i]]

\* String.prototype.replaceAll for one-character strings
replaceAll(s, from, to) == [i \in DOMAIN s |-> IF s[i] = from THEN to ELSE s[i]]

\* String.prototype.startsWith for a one-character prefix
startsWith(s, c) == Len(s) >= 1 /\ s[1] = c

\* String.prototype.trim
RECURSIVE TrimLeft(_)
TrimLeft(s) == IF s # <<>> /\ IsSpace(Head(s)) THEN TrimLeft(Tail(s)) ELSE s
RECURSIVE TrimRight(_)
TrimRight(s) ==
  IF s # <<>> /\ IsSpace(s[Len(s)]) THEN TrimRight(SubSeq(s, 1, Len(s) - 1)) ELSE s
trim(s) == TrimRight(TrimLeft(s))

\* String.prototype.split(sep) for a one-character separator: the segments
\* between separators, empty ones included ('a.' gives 'a' and '')
RECURSIVE SplitFrom(_, _, _)
SplitFrom(s, sep, cur) ==
  IF s = <<>> THEN <<cur>>
  ELSE IF Head(s) = sep THEN <<cur>> \o SplitFrom(Tail(s), sep, <<>>)
  ELSE SplitFrom(Tail(s), sep, Append(cur, Head(s)))
split(s, sep) == SplitFrom(s, sep, <<>>)

----------------------------------------------------------------------------
(* Number(string): ECMAScript StringToNumber for the decimal forms [+-]d*[.d*] *)
(* (the attribute texts of the model hold no exponent, radix prefix or         *)
(* Infinity); anything else is NaN, the empty or blank text is 0               *)

RECURSIVE DigitsValue(_)
DigitsValue(s) ==
  IF s = <<>> THEN 0
  ELSE 10 * DigitsValue(SubSeq(s, 1, Len(s) - 1)) + (IndexOf(Digits, s[Len(s)]) - 1)

RECURSIVE Normalize(_, _)
Normalize(m, d) ==
  IF d > 0 /\ m % 10 = 0 THEN Normalize(m \div 10, d - 1) ELSE Dec(m, d)

UnsignedDecimal(body) ==
  LET parts == split(body, ".")
      int == parts[1]
      frac == IF Len(parts) = 2 THEN parts[2] ELSE <<>>
  IN IF /\ Len(parts) <= 2
        /\ \A i \in DOMAIN int : IsDigit(int[i])
        /\ \A i \in DOMAIN frac : IsDigit(frac[i])
        /\ Len(int) + Len(frac) >= 1
     THEN Normalize(DigitsValue(int \o frac), Len(frac))
     ELSE NaN

StringToNumber(s) ==
  LET text == trim(s)
      signed == text # <<>> /\ Head(text) \in {"+", "-"}
      body == IF signed THEN Tail(text) ELSE text
      abs == UnsignedDecimal(body)
  IN IF text = <<>> THEN Num(0)
     ELSE IF abs = NaN THEN NaN
     ELSE IF signed /\ Head(text) = "-" THEN Dec(0 - abs.m, abs.d)
     ELSE abs

\* Number(v) for a string or a number
Number(v) == IF v.t = "number" THEN v ELSE StringToNumber(v.s)

isNaN(v) == v.t = "NaN"

----------------------------------------------------------------------------
(* The tokenizer: parser.parse(xmlContent) of fast-xml-parser, configured   *)
(* with ignoreAttributes false, prefix '@_', isArray for file and error,    *)
(* parseAttributeValue false.  An element with attributes or child elements *)
(* becomes an object keyed by '@_' + attribute name and by child tag name;  *)
(* an element with neither becomes the string of its trimmed text, so an    *)
(* empty tag becomes ''.                                                    *)

Arr(items) == [t |-> "array", items |-> items]

TokenizeError(attrs) ==
  IF DOMAIN attrs = {} THEN Str(<<>>) ELSE [t |-> "object", attrs |-> attrs]

TokenizeFile(f) ==
  IF DOMAIN f.attrs = {} /\ f.errors = <<>> THEN Str(<<>>)
  ELSE [t |-> "object", attrs |-> f.attrs,
        error |-> IF f.errors = <<>> THEN Undef
                  ELSE Arr([i \in DOMAIN f.errors |-> TokenizeError(f.errors[i])])]

TokenizeRoot(r) ==
  IF DOMAIN r.attrs = {} /\ r.files = <<>> THEN Str(trim(r.text))
  ELSE [t |-> "object", attrs |-> r.attrs,
        file |-> IF r.files = <<>> THEN Undef
                 ELSE Arr([i \in DOMAIN r.files |-> TokenizeFile(r.files[i])])]

\* parser.parse of a well-formed document: { <root tag>: ... }
parse(x) ==
  [checkstyle |-> IF x.root.tag = "checkstyle" THEN TokenizeRoot(x.root) ELSE Undef]

\* node['@_' + name]: undefined on a string node and on a missing attribute
Attr(node, name) ==
  IF IsObj(node) /\ name \in DOMAIN node.attrs THEN Str(node.attrs[name]) ELSE Undef

\* obj[key] of an object modelled as a function
Get(obj, key) == IF key \in DOMAIN obj THEN obj[key] ELSE Undef

----------------------------------------------------------------------------
(* parser.ts *)

E_EMPTY == "Input XML content is empty"
E_PARSE == "Failed to parse XML"
E_ROOT == "Invalid Checkstyle XML: missing root <checkstyle> element"

\* a normalization that compares without lower-casing
normalizeCheckstyleSeverity_CaseSensitive(severity) ==
  LET s == severity
  IN CASE s = <<"e","r","r","o","r">> -> <<"e","r","r","o","r">>
       [] s = <<"w","a","r","n","i","n","g">> -> <<"w","a","r","n","i","n","g">>
       [] s = <<"w","a","r","n">> -> <<"w","a","r","n","i","n","g">>
       [] s = <<"i","n","f","o">> -> <<"i","n","f","o">>
       [] s = <<"i","g","n","o","r","e">> -> <<"i","g","n","o","r","e">>
       [] OTHER -> <<"w","a","r","n","i","n","g">>

normalizeCheckstyleSeverity(severity) ==
  LET s == toLowerCase(severity)
  IN CASE s = <<"e","r","r","o","r">> -> <<"e","r","r","o","r">>
       [] s = <<"w","a","r","n","i","n","g">> -> <<"w","a","r","n","i","n","g">>
       [] s = <<"w","a","r","n">> -> <<"w","a","r","n","i","n","g">>
       [] s = <<"i","n","f","o">> -> <<"i","n","f","o">>
       [] s = <<"i","g","n","o","r","e">> -> <<"i","g","n","o","r","e">>
       [] OTHER -> <<"w","a","r","n","i","n","g">>

\* the .map callback over the raw errors of one file
MapRawError(rawError) ==
  LET line == Number(Coalesce(Attr(rawError, "line"), Num(1)))
      columnRaw == Attr(rawError, "column")
      column == IF ~IsUndef(columnRaw) THEN Number(columnRaw) ELSE Undef
      severity == normalizeCheckstyleSeverity(
                    String(Coalesce(Attr(rawError, "severity"),
                                    Str(<<"w","a","r","n","i","n","g">>))))
      message == String(Coalesce(Attr(rawError, "message"), Str(<<>>)))
      source == String(Coalesce(Attr(rawError, "source"), Str(<<>>)))
      error == [line |-> IF isNaN(line) THEN Num(1) ELSE line,
                severity |-> severity,
                message |-> message,
                source |-> source]
  IN IF ~IsUndef(column) /\ ~isNaN(column)
     THEN ("column" :> column) @@ error
     ELSE error

\* a filter that lets every node through
IsRawErrorObject_KeepAll(e) == TRUE

\* the .filter callback: e !== null && e !== undefined && typeof e === 'object'
IsRawErrorObject(e) == IsObj(e)

\* the .map callback over the raw files
\* a map that puts a substitute in place of an empty name
MapRawFile_SubstitutesName(rawFile) ==
  LET fileName == String(Coalesce(Attr(rawFile, "name"), Str(<<>>)))
      rawErrors == Coalesce(IF IsObj(rawFile) THEN rawFile.error ELSE Undef, Arr(<<>>))
      kept == SelectSeq(rawErrors.items, IsRawErrorObject)
  IN [name |-> IF fileName = <<>> THEN <<"?">> ELSE fileName,
      error |-> [i \in DOMAIN kept |-> MapRawError(kept[i])]]

\* a map that reads error as a single child
MapRawFile_FirstErrorOnly(rawFile) ==
  LET fileName == String(Coalesce(Attr(rawFile, "name"), Str(<<>>)))
      rawErrors == Coalesce(IF IsObj(rawFile) THEN rawFile.error ELSE Undef, Arr(<<>>))
      kept == SelectSeq(rawErrors.items, IsRawErrorObject)
  IN [name |-> fileName,
      error |-> [i \in DOMAIN kept \cap {1} |-> MapRawError(kept[i])]]

\* filesArray.map((rawFile) => ({ name, error: errors }))
MapRawFile(rawFile) ==
  LET fileName == String(Coalesce(Attr(rawFile, "name"), Str(<<>>)))
      rawErrors == Coalesce(IF IsObj(rawFile) THEN rawFile.error ELSE Undef, Arr(<<>>))
      errorsArray == rawErrors.items
      kept == SelectSeq(errorsArray, IsRawErrorObject)
  IN [name |-> fileName,
      error |-> [i \in DOMAIN kept |-> MapRawError(kept[i])]]

\* !parsed.checkstyle: undefined and '' are falsy
RootMissing(parsed) ==
  IsUndef(parsed.checkstyle) \/ (IsStr(parsed.checkstyle) /\ ~Truthy(parsed.checkstyle.s))

\* the report built from the tokenizer's tree, once the root is accepted
BuildReport(parsed) ==
  LET root == parsed.checkstyle
      rawFiles == Coalesce(IF IsObj(root) THEN root.file ELSE Undef, Arr(<<>>))
      filesArray == rawFiles.items
      version == Attr(root, "version")
  IN [version |-> IF ~IsUndef(version) THEN Str(String(version)) ELSE Undef,
      file |-> [i \in DOMAIN filesArray |-> MapRawFile(filesArray[i])]]

\* a test that does not trim
IsEmptyInput_NoTrim(x) == x.kind = "text" /\ x.text = <<>>

\* !xmlContent || xmlContent.trim() === ''
IsEmptyInput(x) == x.kind = "text" /\ trim(x.text) = <<>>

----------------------------------------------------------------------------
(* converter.ts: helpers *)

SARIF_SCHEMA ==
  "https://docs.oasis-open.org/sarif/sarif/v2.1.0/cos02/schemas/sarif-schema-2.1.0.json"

\* a mapping that ignores letter case
mapSeverityToLevel_IgnoresCase(severity) ==
  CASE toLowerCase(severity) = <<"e","r","r","o","r">> -> "error"
    [] toLowerCase(severity) = <<"w","a","r","n","i","n","g">> -> "warning"
    [] toLowerCase(severity) = <<"i","n","f","o">> -> "note"
    [] toLowerCase(severity) = <<"i","g","n","o","r","e">> -> "none"
    [] OTHER -> "warning"

\* switch (severity) { case 'error': ... default: return 'warning' }
mapSeverityToLevel(severity) ==
  CASE severity = <<"e","r","r","o","r">> -> "error"
    [] severity = <<"w","a","r","n","i","n","g">> -> "warning"
    [] severity = <<"i","n","f","o">> -> "note"
    [] severity = <<"i","g","n","o","r","e">> -> "none"
    [] OTHER -> "warning"

\* /^[a-zA-Z]:\//.test(normalized)
IsWindowsAbsolute(normalized) ==
  /\ Len(normalized) >= 3
  /\ IsLetter(normalized[1])
  /\ normalized[2] = ":"
  /\ normalized[3] = "/"

\* a conversion that tests the raw path instead of the normalized one
pathToUri_RawTest(filePath) ==
  LET normalized == replaceAll(filePath, "\\", "/")
  IN IF IsWindowsAbsolute(filePath)
     THEN <<"f","i","l","e",":","/","/","/">> \o normalized
     ELSE IF startsWith(filePath, "/")
     THEN <<"f","i","l","e",":","/","/">> \o normalized
     ELSE normalized

pathToUri(filePath) ==
  LET normalized == replaceAll(filePath, "\\", "/")
  IN IF IsWindowsAbsolute(normalized)
     THEN <<"f","i","l","e",":","/","/","/">> \o normalized
     ELSE IF startsWith(normalized, "/")
     THEN <<"f","i","l","e",":","/","/">> \o normalized
     ELSE normalized

UnknownRule == <<"U","n","k","n","o","w","n","R","u","l","e">>

extractRuleId(source) ==
  IF Truthy(source)
  THEN LET parts == split(source, ".")
       IN parts[Len(parts)]
  ELSE UnknownRule

\* `https://checkstyle.org/checks/${ruleId.toLowerCase()}.html`
HelpUri(ruleId) ==
  <<"h","t","t","p","s",":","/","/","c","h","e","c","k","s","t","y","l","e",
    ".","o","r","g","/","c","h","e","c","k","s","/">>
  \o toLowerCase(ruleId) \o <<".","h","t","m","l">>

\* { id: ruleId, ...(error.source && { helpUri }) }
Descriptor(ruleId, source) ==
  IF Truthy(source)
  THEN [id |-> ruleId, helpUri |-> HelpUri(ruleId)]
  ELSE [id |-> ruleId]

\* error.column > 0 for a number m / 10^d
\* a test that lets a zero column through
IsPositive_NonNegative(n) == n.t = "number" /\ n.m >= 0

\* typeof error.column === 'number' && error.column > 0
IsPositive(n) == n.t = "number" /\ n.m > 0

\* { startLine } plus startColumn when the column is a number > 0
Region(error) ==
  LET column == Get(error, "column")
  IN IF IsPositive(column)
     THEN [startLine |-> error.line, startColumn |-> column]
     ELSE [startLine |-> error.line]

BuildResult(ruleId, ruleIndex, level, error, uri) ==
  [ruleId |-> ruleId,
   ruleIndex |-> ruleIndex,
   level |-> level,
   message |-> [text |-> error.message],
   locations |-> << [physicalLocation |->
                       [artifactLocation |-> [uri |-> uri],
                        region |-> Region(error)]] >>]

(* A JavaScript Map, insertion ordered: a sequence of entries *)
\* a lookup that finds no key
MapHas_Never(m, k) == FALSE

\* Map.prototype.has
MapHas(m, k) == \E i \in DOMAIN m : m[i].key = k
MapGet(m, k) == m[CHOOSE i \in DOMAIN m : m[i].key = k].value
\* a map that puts a new key in front
MapSet_Prepend(m, k, v) ==
  IF MapHas(m, k)
  THEN [i \in DOMAIN m |-> IF m[i].key = k THEN [key |-> k, value |-> v] ELSE m[i]]
  ELSE <<[key |-> k, value |-> v]>> \o m

\* Map.prototype.set: a new key goes last, an old key keeps its place
MapSet(m, k, v) ==
  IF MapHas(m, k)
  THEN [i \in DOMAIN m |-> IF m[i].key = k THEN [key |-> k, value |-> v] ELSE m[i]]
  ELSE Append(m, [key |-> k, value |-> v])
MapSize(m) == Len(m)
MapKeys(m) == [i \in DOMAIN m |-> m[i].key]
MapValues(m) == [i \in DOMAIN m |-> m[i].value]

\* Array.prototype.indexOf, zero based, for an element that is present
indexOf(arr, x) == (CHOOSE i \in DOMAIN arr : arr[i] = x /\ \A j \in 1..(i - 1) : arr[j] # x) - 1

\* a registry lookup that never finds the rule
IsRegistered_Never(indexMap, ruleId) == FALSE

\* first definition: ruleIndexMap.get(ruleId) !== undefined
IsRegistered(indexMap, ruleId) == MapHas(indexMap, ruleId)

\* the size taken after the rule is added
NewRuleIndex_AfterAdd(rules) == MapSize(rules) + 1

\* first definition: ruleIndex = ruleMap.size, taken before the rule is added
NewRuleIndex(rules) == MapSize(rules)

\* a position counted from one
KeyIndex_OneBased(rules, ruleId) == indexOf(MapKeys(rules), ruleId) + 1

\* second definition: [...ruleMap.keys()].indexOf(ruleId), taken after the rule is added
KeyIndex(rules, ruleId) == indexOf(MapKeys(rules), ruleId)

\* first definition: toolVersion, else checkstyle.version, else no version key
DriverVersion(tv, version) ==
  IF IsUndef(tv)
  THEN IF IsUndef(version) THEN EmptyObj ELSE [version |-> version]
  ELSE [version |-> tv]

\* second definition: two spreads in a row, the later one wins
DriverVersionSpread(tv, version) ==
  (IF ~IsUndef(version) THEN [version |-> version] ELSE EmptyObj)
  @@ (IF ~IsUndef(tv) THEN [version |-> tv] ELSE EmptyObj)

\* first definition: ...(rules.length > 0 ? { rules } : {})
DriverRules(rules) == IF Len(rules) > 0 THEN [rules |-> Arr(rules)] ELSE EmptyObj

\* second definition: rules: rules.length > 0 ? rules : undefined
DriverRulesKey(rules) == [rules |-> IF Len(rules) > 0 THEN Arr(rules) ELSE Undef]

\* a run without columnKind
BuildLog_NoColumnKind(driverVersion, driverRules, res) ==
  [version |-> "2.1.0",
   schema |-> SARIF_SCHEMA,
   runs |-> << [tool |-> [driver |-> driverRules @@ driverVersion @@
                                    [name |-> "Checkstyle",
                                     informationUri |-> "https://checkstyle.org"]],
                results |-> res] >>]

\* const run: Run = { ... }; const sarifLog: SarifLog = { ... }
BuildLog(driverVersion, driverRules, res) ==
  [version |-> "2.1.0",
   schema |-> SARIF_SCHEMA,
   runs |-> << [tool |-> [driver |-> driverRules @@ driverVersion @@
                                    [name |-> "Checkstyle",
                                     informationUri |-> "https://checkstyle.org"]],
                results |-> res,
                columnKind |-> "utf16CodeUnits"] >>]

(* The definition of convertToSarif built on node-sarif-builder: the values *)
(* it hands to the builders                                                 *)

\* new SarifRuleBuilder().initSimple({ ruleId, shortDescriptionText, helpUri })
BuilderDescriptor(ruleId) ==
  [id |-> ruleId, shortDescription |-> [text |-> ruleId], helpUri |-> HelpUri(ruleId)]

\* sarifResultBuilder.initSimple(sarifResultInit), the column left out when
\* hasColumn is false
BuilderResult(ruleId, level, error, uri) ==
  [ruleId |-> ruleId,
   level |-> level,
   message |-> [text |-> error.message],
   locations |-> << [physicalLocation |->
                       [artifactLocation |-> [uri |-> uri],
                        region |-> Region(error)]] >>]

\* toolDriverVersion: version ?? '', deleted when version === undefined
BuilderDriverVersion(tv, version) ==
  LET v == Coalesce(tv, version)
  IN IF IsUndef(v) THEN EmptyObj ELSE [version |-> v]

----------------------------------------------------------------------------
(* Inputs *)

SeqsUpTo(S, n) == UNION {[1..k -> S] : k \in 0..n}

NoAttrs == [k \in {} |-> <<>>]

\* <error .../> elements of the general reports: no attribute at all, every
\* attribute, the source alone (same last segment as the one before), another rule
ErrorElements ==
  { NoAttrs,
    [line |-> <<"3">>, column |-> <<"2">>, severity |-> <<"e","r","r","o","r">>,
     message |-> <<"m">>, source |-> <<"x",".","A">>],
    [source |-> <<"A">>],
    [line |-> <<"7">>, message |-> <<"n">>, source |-> <<"B">>] }

FileNames == { <<"/","a">>, <<"b">> }

VersionAttrs == { NoAttrs, [version |-> <<>>], [version |-> <<"1","0">>] }

\* the toolVersion argument: not supplied, '' or '9'
ToolVersions == { Undef, Str(<<>>), Str(<<"9">>) }

FileElements(budget) ==
  { [attrs |-> [name |-> n], errors |-> es] :
      n \in FileNames, es \in SeqsUpTo(ErrorElements, budget) }

\* sequences of at most n <file> elements holding at most budget <error> elements
RECURSIVE FileSeqs(_, _)
FileSeqs(n, budget) ==
  {<<>>} \cup
  (IF n = 0 THEN {}
   ELSE UNION { { <<f>> \o rest : rest \in FileSeqs(n - 1, budget - Len(f.errors)) } :
                f \in FileElements(budget) })

Document(tag, attrs, text, files) ==
  [kind |-> "document",
   root |-> [tag |-> tag, attrs |-> attrs, text |-> text, files |-> files]]

\* inputs that are not a <checkstyle> report: '', blank text, XML the tokenizer
\* rejects, another root element
OtherInputs ==
  { [kind |-> "text", text |-> <<>>],
    [kind |-> "text", text |-> <<" ", "\n">>],
    [kind |-> "text", text |-> <<"a">>],
    [kind |-> "malformed"],
    Document("root", NoAttrs, <<>>, <<>>) }

\* <checkstyle> roots without <file> children, with and without text content
EmptyReports ==
  { Document("checkstyle", a, t, <<>>) : a \in VersionAttrs, t \in {<<>>, <<" ">>, <<"x">>} }

Reports ==
  { Document("checkstyle", a, <<>>, fs) : a \in VersionAttrs, fs \in FileSeqs(MaxFiles, MaxErrors) }

\* one file, one error, carrying the given attributes
SingleError(name, attrs) ==
  Document("checkstyle", NoAttrs, <<>>, << [attrs |-> [name |-> name], errors |-> <<attrs>>] >>)

\* the inputs of repeated calls: two reports sharing a rule, one without
\* errors, and text that is not well-formed
RepeatInputs ==
  { SingleError(<<"b">>, [source |-> <<"A">>, line |-> <<"3">>]),
    Document("checkstyle", NoAttrs, <<>>,
             << [attrs |-> [name |-> <<"b">>],
                 errors |-> << [source |-> <<"A">>], [source |-> <<"B">>] >>] >>),
    Document("checkstyle", [version |-> <<"1", "0">>], <<>>, <<>>),
    [kind |-> "malformed"] }

----------------------------------------------------------------------------
(* State machine *)

InitWith(inputs) ==
  /\ xml \in inputs
  /\ pc = "input"
  /\ report = Undef
  /\ thrown = Undef
  /\ tokenized = FALSE
  /\ impl = 0
  /\ toolVersion = Undef
  /\ ruleMap = <<>>
  /\ ruleIndexMap = <<>>
  /\ results = <<>>
  /\ fi = 0
  /\ ei = 0
  /\ fileUri = <<>>
  /\ sarifLog = Undef
  /\ json = Undef
  /\ seen = {}
  /\ calls = 1

Init == InitWith(OtherInputs \cup EmptyReports \cup Reports)

\* new Error(message) and new Error(message, { cause })
Error(message, cause) == [t |-> "Error", message |-> message, cause |-> cause]

\* the error parser.parse raises on text that is not well-formed
TokenizerError == Error(<<"tokenizer">>, Undef)

\* a wrapper that loses the cause
WrapTokenizerError_NoCause(err) == Error(<<E_PARSE, err.message>>, Undef)

\* new Error(`Failed to parse XML: ${err.message}`, { cause: err })
WrapTokenizerError(err) == Error(<<E_PARSE, err.message>>, err)

\* parser.parse(xmlContent) when it returns: text without markup has no root
Tokenize(x) == IF x.kind = "document" THEN parse(x) ELSE [checkstyle |-> Undef]

\* parseCheckstyleXml(xmlContent)
ParseCheckstyleXml ==
  /\ pc = "input"
  /\ IF IsEmptyInput(xml)
     THEN /\ thrown' = Error(<<E_EMPTY>>, Undef)
          /\ pc' = "failed"
          /\ UNCHANGED <<report, tokenized>>
     ELSE /\ tokenized' = TRUE
          /\ IF xml.kind = "malformed"
             THEN /\ thrown' = WrapTokenizerError(TokenizerError)
                  /\ pc' = "failed"
                  /\ UNCHANGED report
             ELSE IF RootMissing(Tokenize(xml))
             THEN /\ thrown' = Error(<<E_ROOT>>, Undef)
                  /\ pc' = "failed"
                  /\ UNCHANGED report
             ELSE /\ report' = BuildReport(Tokenize(xml))
                  /\ pc' = "parsed"
                  /\ UNCHANGED thrown
  /\ UNCHANGED <<xml, impl, toolVersion, ruleMap, ruleIndexMap, results, fi, ei,
                 fileUri, sarifLog, json, seen, calls>>

\* results that keep what an earlier call left
NewResults_Kept == results

\* const results: Result[] = []
NewResults == <<>>

\* a registry that keeps what an earlier call left
NewMap_Kept == ruleMap

\* new Map()
NewMap == <<>>

\* convertToSarif(checkstyle, toolVersion) of converter.ts: entry, the maps and
\* results are created; the module has one of the two definitions
ConvertToSarif ==
  /\ pc = "parsed"
  /\ \E d \in {1, 2}, tv \in ToolVersions :
       /\ impl \in {0, d}
       /\ impl' = d
       /\ toolVersion' = tv
  /\ ruleMap' = NewMap
  /\ ruleIndexMap' = NewMap
  /\ results' = NewResults
  /\ fi' = 0
  /\ ei' = 0
  /\ pc' = "scan"
  /\ UNCHANGED <<xml, report, thrown, tokenized, fileUri, sarifLog, json, seen, calls>>

\* convertToSarif(checkstyle, toolVersion) built on node-sarif-builder: entry,
\* the run builder and the set of rule ids are created
ConvertToSarifBuilder ==
  /\ pc = "parsed"
  /\ impl \in {0, 3}
  /\ impl' = 3
  /\ \E tv \in ToolVersions : toolVersion' = tv
  /\ ruleMap' = NewMap
  /\ ruleIndexMap' = NewMap
  /\ results' = NewResults
  /\ fi' = 0
  /\ ei' = 0
  /\ pc' = "scan"
  /\ UNCHANGED <<xml, report, thrown, tokenized, fileUri, sarifLog, json, seen, calls>>

\* a loop condition that leaves the inner loop one error early
FileDone_SkipsLast == IF fi = 0 THEN TRUE ELSE ei >= Len(report.file[fi].error)

\* the inner loop has no error left (or no file has been entered yet)
FileDone == IF fi = 0 THEN TRUE ELSE ei > Len(report.file[fi].error)

\* for (const file of checkstyle.file): enter the next file
NextFile ==
  /\ pc = "scan"
  /\ FileDone
  /\ fi < Len(report.file)
  /\ fi' = fi + 1
  /\ ei' = 1
  /\ fileUri' = pathToUri(report.file[fi + 1].name)
  /\ UNCHANGED <<xml, pc, report, thrown, tokenized, impl, toolVersion, ruleMap,
                 ruleIndexMap, results, sarifLog, json, seen, calls>>

\* for (const error of file.error): the loop body
ScanError ==
  /\ pc = "scan"
  /\ fi >= 1
  /\ ei <= Len(report.file[fi].error)
  /\ LET error == report.file[fi].error[ei]
         ruleId == extractRuleId(error.source)
         level == mapSeverityToLevel(error.severity)
         rule == Descriptor(ruleId, error.source)
     IN IF impl = 1
        THEN IF ~IsRegistered(ruleIndexMap, ruleId)
             THEN /\ ruleIndexMap' = MapSet(ruleIndexMap, ruleId, NewRuleIndex(ruleMap))
                  /\ ruleMap' = MapSet(ruleMap, ruleId, rule)
                  /\ results' = Append(results,
                                  BuildResult(ruleId, NewRuleIndex(ruleMap), level, error, fileUri))
             ELSE /\ UNCHANGED <<ruleIndexMap, ruleMap>>
                  /\ results' = Append(results,
                                  BuildResult(ruleId, MapGet(ruleIndexMap, ruleId), level, error, fileUri))
        ELSE IF impl = 2
        THEN /\ ruleMap' = IF ~MapHas(ruleMap, ruleId) THEN MapSet(ruleMap, ruleId, rule) ELSE ruleMap
             /\ results' = Append(results,
                             BuildResult(ruleId, KeyIndex(ruleMap', ruleId), level, error, fileUri))
             /\ UNCHANGED ruleIndexMap
        ELSE /\ ruleMap' = IF ~MapHas(ruleMap, ruleId)
                           THEN MapSet(ruleMap, ruleId, BuilderDescriptor(ruleId))
                           ELSE ruleMap
             /\ results' = Append(results, BuilderResult(ruleId, level, error, fileUri))
             /\ UNCHANGED ruleIndexMap
  /\ ei' = ei + 1
  /\ UNCHANGED <<xml, pc, report, thrown, tokenized, impl, toolVersion, fi, fileUri,
                 sarifLog, json, seen, calls>>

\* after the loops: rules, run and log
Assemble ==
  /\ pc = "scan"
  /\ FileDone
  /\ fi = Len(report.file)
  /\ LET rules == MapValues(ruleMap)
     IN sarifLog' =
          IF impl = 1
          THEN BuildLog(DriverVersion(toolVersion, report.version), DriverRules(rules), results)
          ELSE IF impl = 2
          THEN BuildLog(DriverVersionSpread(toolVersion, report.version),
                        DriverRulesKey(rules), results)
          ELSE BuildLog(BuilderDriverVersion(toolVersion, report.version),
                        [rules |-> Arr(rules)], results)
  /\ pc' = "done"
  /\ UNCHANGED <<xml, report, thrown, tokenized, impl, toolVersion, ruleMap,
                 ruleIndexMap, results, fi, ei, fileUri, json, seen, calls>>

\* the indent argument of convertCheckstyleToSarif: not supplied, or 4
IndentArgs == { Undef, Num(4) }
DefaultIndent == 2

\* indent = 2 as the default of the parameter
IndentOrDefault(arg) == IF IsUndef(arg) THEN Num(DefaultIndent) ELSE arg

\* keys whose value is undefined are left out of the text
DropUndefined(obj) ==
  [k \in {k \in DOMAIN obj : k \in {"rules", "version"} => ~IsUndef(obj[k])} |-> obj[k]]

\* JSON.stringify(sarif, null, indent): the text, by the indent it is laid out
\* with and the value it spells
JSONstringify(log, indent) ==
  [t |-> "json",
   indent |-> indent,
   value |-> [log EXCEPT !.runs[1].tool.driver = DropUndefined(@)]]

\* a caller that catches the parser's error and returns text all the same
Stringify_AfterFailure ==
  /\ pc \in {"done", "failed"}
  /\ IsUndef(toolVersion)
  /\ json' = [t |-> "json", indent |-> Num(DefaultIndent), value |-> sarifLog]
  /\ pc' = "returned"
  /\ UNCHANGED <<xml, report, thrown, tokenized, impl, toolVersion, ruleMap,
                 ruleIndexMap, results, fi, ei, fileUri, sarifLog, seen, calls>>

\* convertCheckstyleToSarif: convertToSarif was called without toolVersion,
\* the log is serialized and returned
Stringify ==
  /\ pc = "done"
  /\ IsUndef(toolVersion)
  /\ \E arg \in IndentArgs :
       /\ json' = JSONstringify(sarifLog, IndentOrDefault(arg))
       /\ seen' = seen \cup {[call |-> calls, xml |-> xml, indent |-> arg, json |-> json']}
  /\ pc' = "returned"
  /\ UNCHANGED <<xml, report, thrown, tokenized, impl, toolVersion, ruleMap,
                 ruleIndexMap, results, fi, ei, fileUri, sarifLog, calls>>

Next ==
  \/ ParseCheckstyleXml
  \/ ConvertToSarif
  \/ NextFile
  \/ ScanError
  \/ Assemble
  \/ Stringify

Spec == Init /\ [][Next]_vars

\* the module built on node-sarif-builder in place of converter.ts
NextBuilder == Next \/ ConvertToSarifBuilder

\* a further call of convertCheckstyleToSarif, or of its two stages, in the
\* same process: the arguments and the call's own bindings are new, whatever
\* the earlier call left in memory is still there
NextCall ==
  /\ pc \in {"done", "returned", "failed"}
  /\ calls < MaxCalls
  /\ calls' = calls + 1
  /\ xml' \in RepeatInputs
  /\ pc' = "input"
  /\ report' = Undef
  /\ thrown' = Undef
  /\ tokenized' = FALSE
  /\ toolVersion' = Undef
  /\ sarifLog' = Undef
  /\ json' = Undef
  /\ UNCHANGED <<impl, ruleMap, ruleIndexMap, results, fi, ei, fileUri, seen>>

NextRepeat == Next \/ NextCall

----------------------------------------------------------------------------
(* Input families of the single-error specifications *)

UpperOf(c) == UpperCase[IndexOf(LowerCase, c)]

\* every spelling of a lower-case word in upper and lower case letters
CaseVariants(w) ==
  { [i \in DOMAIN w |-> IF i \in U THEN UpperOf(w[i]) ELSE w[i]] : U \in SUBSET DOMAIN w }

SevError == CaseVariants(<<"e","r","r","o","r">>)
SevWarning == CaseVariants(<<"w","a","r","n","i","n","g">>)
SevWarn == CaseVariants(<<"w","a","r","n">>)
SevInfo == CaseVariants(<<"i","n","f","o">>)
SevIgnore == CaseVariants(<<"i","g","n","o","r","e">>)
SevOther ==
  { <<>>, <<"f","a","t","a","l">>, <<"n","o","t","e">>, <<"n","o","n","e">>,
    <<"e","r","r","o","r","s">>, <<"i","n","f">>, <<" ","i","n","f","o">>,
    <<"W","A","R","N","S">>, <<"x">> }
SeverityTexts == SevError \cup SevWarning \cup SevWarn \cup SevInfo \cup SevIgnore \cup SevOther

SeverityInputs ==
  { SingleError(<<"b">>, [line |-> <<"1">>, severity |-> s]) : s \in SeverityTexts }
  \cup { SingleError(<<"b">>, [line |-> <<"1">>]) }

PathChars == {"C", "d", "1", ":", "/", "\\"}
\* names that are URIs already
UriNames ==
  { <<"f","i","l","e",":","/","/","/","a">>,
    <<"f","i","l","e",":","/","/","/","C",":","\\","a">> }
PathInputs ==
  { SingleError(n, [line |-> <<"1">>]) : n \in SeqsUpTo(PathChars, MaxNameLen) \cup UriNames }

SourceChars == {"a", "B", "."}
SourceInputs ==
  { SingleError(<<"b">>, [line |-> <<"1">>, source |-> src]) :
      src \in SeqsUpTo(SourceChars, MaxSourceLen) }
  \cup { SingleError(<<"b">>, [line |-> <<"1">>]) }

InitSeverity == InitWith(SeverityInputs)
SpecSeverity == InitSeverity /\ [][Next]_vars

InitPath == InitWith(PathInputs)
SpecPath == InitPath /\ [][Next]_vars

InitSource == InitWith(SourceInputs)
SpecSource == InitSource /\ [][Next]_vars

\* texts of a line or column attribute
NumberTexts ==
  { <<"5">>, <<"1", "2">>, <<"0">>, <<"-", "3">>, <<"1", ".", "5">>, <<>>, <<"a">> }

\* one <error> with every combination of a line and a column attribute
RegionAttrs ==
  { [line |-> l, column |-> c] : l \in NumberTexts, c \in NumberTexts }
  \cup { [line |-> l] : l \in NumberTexts }
  \cup { [column |-> c] : c \in NumberTexts }
  \cup { [message |-> <<"m">>], NoAttrs }

RegionInputs == { SingleError(<<"b">>, a) : a \in RegionAttrs }

InitRegion == InitWith(RegionInputs)
SpecRegion == InitRegion /\ [][Next]_vars

SpecBuilder == InitSource /\ [][NextBuilder]_vars

\* sequences of at most n <file> elements of one name holding at most budget
\* <error> elements
RECURSIVE SameNameFileSeqs(_, _)
SameNameFileSeqs(n, budget) ==
  {<<>>} \cup
  (IF n = 0 THEN {}
   ELSE UNION { { << [attrs |-> [name |-> <<"b">>], errors |-> es] >> \o rest :
                    rest \in SameNameFileSeqs(n - 1, budget - Len(es)) } :
                es \in SeqsUpTo(ErrorElements, budget) })

\* reports without a version attribute
LiveInputs ==
  { Document("checkstyle", NoAttrs, <<>>, fs) : fs \in SameNameFileSeqs(MaxFiles, MaxErrors) }

\* reports handed to convertToSarif by a caller that built them itself: one
\* error whose severity is any text
DirectReports ==
  { [version |-> Undef,
     file |-> << [name |-> <<"b">>,
                  error |-> << [line |-> Num(1), severity |-> sev,
                                message |-> <<"m">>, source |-> <<>>] >>] >>] :
      sev \in SeverityTexts \cup {<<"c","u","s","t","o","m">>} }

\* convertToSarif called on its own
InitDirect ==
  /\ xml = [kind |-> "none"]
  /\ pc = "parsed"
  /\ report \in DirectReports
  /\ thrown = Undef
  /\ tokenized = FALSE
  /\ impl = 0
  /\ toolVersion = Undef
  /\ ruleMap = <<>>
  /\ ruleIndexMap = <<>>
  /\ results = <<>>
  /\ fi = 0
  /\ ei = 0
  /\ fileUri = <<>>
  /\ sarifLog = Undef
  /\ json = Undef
  /\ seen = {}
  /\ calls = 1

NextDirect == ConvertToSarif \/ NextFile \/ ScanError \/ Assemble

SpecDirect == InitDirect /\ [][NextDirect]_vars

\* sources that share a derived identifier: none and two that end in
\* UnknownRule, and two that end in A
DedupSources ==
  { <<>>,
    <<"U","n","k","n","o","w","n","R","u","l","e">>,
    <<"x",".","U","n","k","n","o","w","n","R","u","l","e">>,
    <<"A">>,
    <<"x",".","A">> }

DedupError(src) ==
  IF src = <<>> THEN [line |-> <<"1">>] ELSE [line |-> <<"1">>, source |-> src]

\* two or three errors in one file, or in two files
DedupInputs ==
  { Document("checkstyle", NoAttrs, <<>>,
             << [attrs |-> [name |-> <<"b">>],
                 errors |-> [i \in DOMAIN srcs |-> DedupError(srcs[i])]] >>) :
      srcs \in [1..2 -> DedupSources] \cup [1..3 -> DedupSources] }
  \cup
  { Document("checkstyle", NoAttrs, <<>>,
             << [attrs |-> [name |-> <<"b">>], errors |-> << DedupError(s1) >>],
                [attrs |-> [name |-> <<"c">>], errors |-> << DedupError(s2) >>] >>) :
      s1 \in DedupSources, s2 \in DedupSources }

InitDedup == InitWith(DedupInputs)
SpecDedup == InitDedup /\ [][Next]_vars

\* <file> elements with no name attribute, an empty one and two names, holding
\* <error> elements told apart by their message, one of them without attribute
NameAttrs == { NoAttrs, [name |-> <<>>], [name |-> <<"a">>], [name |-> <<"b">>] }
MessageErrors ==
  { <<>>,
    << [message |-> <<"m">>] >>,
    << [message |-> <<"m">>], [message |-> <<"n">>] >>,
    << [message |-> <<"n">>], [message |-> <<"m">>] >>,
    << NoAttrs, [message |-> <<"m">>] >> }
NamedFiles == { [attrs |-> a, errors |-> es] : a \in NameAttrs, es \in MessageErrors }
NameInputs ==
  { Document("checkstyle", NoAttrs, <<>>, <<f>>) : f \in NamedFiles }
  \cup { Document("checkstyle", NoAttrs, <<>>, <<f, g>>) : f \in NamedFiles, g \in NamedFiles }

InitNames == InitWith(NameInputs)
SpecNames == InitNames /\ [][Next]_vars

InitLive == InitWith(LiveInputs)
SpecScan == InitLive /\ [][Next]_vars

\* convertToSarif is synchronous: once called, each of its steps is taken
SpecLive ==
  /\ InitLive
  /\ [][Next]_vars
  /\ WF_vars(ConvertToSarif)
  /\ WF_vars(NextFile)
  /\ WF_vars(ScanError)
  /\ WF_vars(Assemble)

InitRepeat == InitWith(RepeatInputs)
SpecRepeat == InitRepeat /\ [][NextRepeat]_vars

----------------------------------------------------------------------------
(* Reading the input document and the emitted log *)

IsCheckstyleDocument == xml.kind = "document" /\ xml.root.tag = "checkstyle"

\* the <error> elements of the input, file by file, each with its <file>'s name
RECURSIVE ErrorsOfFiles(_)
ErrorsOfFiles(files) ==
  IF files = <<>> THEN <<>>
  ELSE [i \in DOMAIN Head(files).errors |->
          [name |-> Head(files).attrs.name, attrs |-> Head(files).errors[i]]]
       \o ErrorsOfFiles(Tail(files))

InputErrors == ErrorsOfFiles(xml.root.files)

HasAttribute(e) == DOMAIN e.attrs # {}
\* the <error> elements the tokenizer renders as objects
InputObjectErrors == SelectSeq(InputErrors, HasAttribute)

AttrOr(e, name, default) == IF name \in DOMAIN e.attrs THEN e.attrs[name] ELSE default

\* the errors of the parsed report, file by file
RECURSIVE ErrorsOfReport(_)
ErrorsOfReport(files) ==
  IF files = <<>> THEN <<>> ELSE Head(files).error \o ErrorsOfReport(Tail(files))

ReportErrors == ErrorsOfReport(report.file)

Run == sarifLog.runs[1]
Driver == Run.tool.driver
LogResults == Run.results
HasRulesArray == "rules" \in DOMAIN Driver /\ Driver.rules.t = "array"
LogRules == IF HasRulesArray THEN Driver.rules.items ELSE <<>>
UriOf(r) == r.locations[1].physicalLocation.artifactLocation.uri

\* result r carries the file, message and source of the <error> element e
DerivedFrom(r, e) ==
  /\ UriOf(r) = pathToUri(e.name)
  /\ r.message.text = AttrOr(e, "message", <<>>)
  /\ r.ruleId = extractRuleId(AttrOr(e, "source", <<>>))

----------------------------------------------------------------------------
(* Claims *)

\* C1 as stated: the emitted results have one entry per <error> element of the
\* input, attribute-less elements included, the k-th result derived from the
\* k-th <error> in file order then error order.
C1_OneResultPerErrorElement ==
  (pc = "done" /\ IsCheckstyleDocument) =>
    /\ Len(LogResults) = Len(InputErrors)
    /\ \A k \in DOMAIN LogResults :
         k \in DOMAIN InputErrors /\ DerivedFrom(LogResults[k], InputErrors[k])

\* C1 amended: the emitted results have one entry per <error> element that the
\* tokenizer renders as an object (one carrying an attribute); an <error> with
\* no attribute and no child yields no result.  The k-th result is derived from
\* the k-th such <error> in file order then error order within a file.
C1_OneResultPerObjectError ==
  (pc = "done" /\ IsCheckstyleDocument) =>
    /\ Len(LogResults) = Len(InputObjectErrors)
    /\ \A k \in DOMAIN LogResults : DerivedFrom(LogResults[k], InputObjectErrors[k])

\* a log emitted for two files where an attribute-less <error> precedes one with attributes
C1_Witness ==
  /\ pc = "done"
  /\ IsCheckstyleDocument
  /\ Len(xml.root.files) = 2
  /\ xml.root.files[1].attrs.name # xml.root.files[2].attrs.name
  /\ Len(InputErrors) = 2
  /\ ~HasAttribute(InputErrors[1])
  /\ HasAttribute(InputErrors[2])
  /\ InputErrors[2].name = xml.root.files[2].attrs.name
  /\ Len(LogResults) = 1

\* C2: in the returned log every result r has rules[r.ruleIndex] present with
\* id equal to r.ruleId, so results with the same ruleId share their ruleIndex.
C2_RuleIndexPointsAtRule ==
  pc = "done" =>
    /\ \A k \in DOMAIN LogResults :
         /\ LogResults[k].ruleIndex + 1 \in DOMAIN LogRules
         /\ LogRules[LogResults[k].ruleIndex + 1].id = LogResults[k].ruleId
    /\ \A j, k \in DOMAIN LogResults :
         LogResults[j].ruleId = LogResults[k].ruleId =>
           LogResults[j].ruleIndex = LogResults[k].ruleIndex

\* a log whose second result points at the second rule
C2_Witness ==
  /\ pc = "done"
  /\ Len(LogResults) = 2
  /\ Len(LogRules) = 2
  /\ LogResults[2].ruleIndex = 1
  /\ LogRules[2].id = LogResults[2].ruleId

\* C3: the rules array has no two descriptors with the same id, its length is
\* the number of distinct derived identifiers over the report's errors, and
\* when all errors share one identifier there is one descriptor and every
\* result has ruleIndex 0.
C3_RulesAreDistinct ==
  pc = "done" =>
    LET ids == { extractRuleId(ReportErrors[k].source) : k \in DOMAIN ReportErrors }
    IN /\ \A i, j \in DOMAIN LogRules : LogRules[i].id = LogRules[j].id => i = j
       /\ Len(LogRules) = Cardinality(ids)
       /\ Cardinality(ids) = 1 =>
            /\ Len(LogRules) = 1
            /\ \A k \in DOMAIN LogResults : LogResults[k].ruleIndex = 0

\* two errors with different sources and one derived identifier give one rule
C3_Witness ==
  /\ pc = "done"
  /\ Len(ReportErrors) = 2
  /\ ReportErrors[1].source # ReportErrors[2].source
  /\ Len(LogRules) = 1
  /\ Len(LogResults) = 2
  /\ LogResults[2].ruleIndex = 0

\* the one <error> element of a single-error input
TheError == xml.root.files[1].errors[1]
TheName == xml.root.files[1].attrs.name

\* C4: parsing then projecting an error whose severity is error, warning, info
\* or ignore in any letter case yields level error, warning, note, none; warn
\* in any case yields warning; any other text and a missing attribute yield
\* warning.
C4_SeverityToLevel ==
  (pc = "done" /\ Len(InputErrors) = 1 /\ Len(LogResults) = 1) =>
    LET level == LogResults[1].level
    IN IF "severity" \notin DOMAIN TheError THEN level = "warning"
       ELSE LET text == TheError.severity
            IN /\ text \in SevError => level = "error"
               /\ text \in SevWarning \cup SevWarn => level = "warning"
               /\ text \in SevInfo => level = "note"
               /\ text \in SevIgnore => level = "none"
               /\ text \notin SevError \cup SevInfo \cup SevIgnore => level = "warning"

\* a mixed-case ignore has been converted to level none
C4_Witness ==
  /\ pc = "done"
  /\ Len(InputErrors) = 1
  /\ "severity" \in DOMAIN TheError
  /\ TheError.severity = <<"I","g","N","o","r","E">>
  /\ Len(LogResults) = 1
  /\ LogResults[1].level = "none"

SuppliedToolVersion == ~IsUndef(toolVersion)

\* C5: tool.driver.version is the toolVersion argument whenever it is
\* supplied, even if the report has a version; otherwise it is the report's
\* version; when neither exists the driver has no version key.
C5_ToolVersionTakesPrecedence ==
  pc = "done" =>
    IF SuppliedToolVersion
    THEN "version" \in DOMAIN Driver /\ Driver.version = toolVersion
    ELSE IF ~IsUndef(report.version)
    THEN "version" \in DOMAIN Driver /\ Driver.version = report.version
    ELSE "version" \notin DOMAIN Driver

\* C6: no output carries tool.driver.version equal to the empty string: the
\* version key is a non-empty string or absent.
C6_VersionNeverEmpty ==
  pc = "done" =>
    ("version" \in DOMAIN Driver => Driver.version # Str(<<>>))

\* C7: every input whose root is <checkstyle> with zero <file> children
\* converts without error to a log with one run, empty results and no rules
\* key on the driver.
C7_EmptyReportConverts ==
  (IsCheckstyleDocument /\ xml.root.files = <<>>) =>
    /\ pc # "failed"
    /\ pc = "done" =>
         /\ Len(sarifLog.runs) = 1
         /\ LogResults = <<>>
         /\ "rules" \notin DOMAIN Driver

\* the name with every backslash turned into a forward slash
Slashed(name) == [i \in DOMAIN name |-> IF name[i] = "\\" THEN "/" ELSE name[i]]
DriveLetters == {"C", "d"}

\* C8: the artifact URI is the file name with backslashes replaced by forward
\* slashes, prefixed by file:/// when that starts with a drive letter, colon
\* and slash, by file:// when it starts with /, and unchanged otherwise.
C8_PathToUri ==
  (pc = "done" /\ Len(InputErrors) = 1 /\ Len(LogResults) = 1) =>
    LET n == Slashed(TheName)
        uri == UriOf(LogResults[1])
    IN IF Len(n) >= 3 /\ n[1] \in DriveLetters /\ n[2] = ":" /\ n[3] = "/"
       THEN uri = <<"f","i","l","e",":","/","/","/">> \o n
       ELSE IF Len(n) >= 1 /\ n[1] = "/"
       THEN uri = <<"f","i","l","e",":","/","/">> \o n
       ELSE uri = n

\* the name C:\ has been converted to file:///C:/
C8_Witness ==
  /\ pc = "done"
  /\ Len(InputErrors) = 1
  /\ TheName = <<"C", ":", "\\">>
  /\ Len(LogResults) = 1
  /\ UriOf(LogResults[1]) = <<"f","i","l","e",":","/","/","/","C",":","/">>

\* the segments of a source between dots that are not empty
NonEmptySegments(source) == SelectSeq(split(source, "."), Truthy)

\* C9: the rule identifier is the last non-empty segment of the source split
\* on '.'; an empty source gives UnknownRule; a source without '.' gives the
\* source itself.
C9_LastNonEmptySegment ==
  (pc = "done" /\ Len(InputErrors) = 1 /\ Len(LogResults) = 1) =>
    LET source == AttrOr(InputErrors[1], "source", <<>>)
        ruleId == LogResults[1].ruleId
        segments == NonEmptySegments(source)
    IN /\ source = <<>> => ruleId = UnknownRule
       /\ (source # <<>> /\ \A i \in DOMAIN source : source[i] # ".") => ruleId = source
       /\ segments # <<>> => ruleId = segments[Len(segments)]

\* C10: every rule descriptor has a non-empty id and every result a non-empty
\* ruleId, whatever the source (sources ending with '.' or made of '.' only
\* included).
C10_RuleIdNeverEmpty ==
  pc = "done" =>
    /\ \A k \in DOMAIN LogResults : LogResults[k].ruleId # <<>>
    /\ \A k \in DOMAIN LogRules : LogRules[k].id # <<>>

Converted == pc \in {"done", "returned"}
RegionOf(r) == r.locations[1].physicalLocation.region
HasPositiveColumn(e) ==
  "column" \in DOMAIN e /\ e.column.t = "number" /\ e.column.m > 0

\* C11: every result has exactly one location; its region has startLine equal
\* to the error's line, and has a startColumn key exactly when the error's
\* column is a defined number greater than zero, startColumn then being that
\* column.
C11_OneLocationWithRegion ==
  Converted =>
    /\ Len(LogResults) = Len(ReportErrors)
    /\ \A k \in DOMAIN LogResults :
         LET r == LogResults[k]
             e == ReportErrors[k]
         IN /\ Len(r.locations) = 1
            /\ "startLine" \in DOMAIN RegionOf(r)
            /\ RegionOf(r).startLine = e.line
            /\ ("startColumn" \in DOMAIN RegionOf(r)) <=> HasPositiveColumn(e)
            /\ HasPositiveColumn(e) => RegionOf(r).startColumn = e.column

\* a converted error whose column is positive
C11_Witness ==
  /\ Converted
  /\ Len(LogResults) = 1
  /\ HasPositiveColumn(ReportErrors[1])
  /\ RegionOf(LogResults[1]).startColumn = Num(5)

IsIntegerFromOne(n) == n.t = "number" /\ n.d = 0 /\ n.m >= 1

\* C12: each parsed error's line is an integer >= 1 and its column, when
\* present, is an integer >= 1; every startLine and startColumn of the emitted
\* log is an integer >= 1.
C12_LineAndColumnFromOne ==
  /\ pc \in {"parsed", "scan", "done", "returned"} =>
       \A k \in DOMAIN ReportErrors :
         /\ IsIntegerFromOne(ReportErrors[k].line)
         /\ "column" \in DOMAIN ReportErrors[k] => IsIntegerFromOne(ReportErrors[k].column)
  /\ Converted =>
       \A k \in DOMAIN LogResults :
         /\ IsIntegerFromOne(RegionOf(LogResults[k]).startLine)
         /\ "startColumn" \in DOMAIN RegionOf(LogResults[k]) =>
              IsIntegerFromOne(RegionOf(LogResults[k]).startColumn)


IsBlank(x) == x.kind = "text" /\ \A i \in DOMAIN x.text : IsSpace(x.text[i])
Raised(message) == pc = "failed" /\ thrown.t = "Error" /\ thrown.message = message

\* C13: on an input that is empty or only whitespace parseCheckstyleXml raises
\* the 'empty input' error, and the tokenizer has not been invoked.
C13_EmptyInputRejectedFirst ==
  (IsBlank(xml) /\ pc # "input") => (Raised(<<E_EMPTY>>) /\ ~tokenized)

\* a whitespace-only input has been rejected
C13_Witness == IsBlank(xml) /\ xml.text # <<>> /\ pc = "failed"

\* C14: parseCheckstyleXml raises the 'missing root' error exactly when the
\* input tokenizes successfully and its root element is not <checkstyle>.
C14_MissingRootIffOtherRoot ==
  pc # "input" =>
    (Raised(<<E_ROOT>>) <=> (tokenized /\ xml.kind # "malformed" /\ ~IsCheckstyleDocument))

\* C15: when the tokenizer fails, parseCheckstyleXml raises a new error whose
\* cause is the tokenizer's error; that error is neither raised unwrapped nor
\* swallowed.
C15_TokenizerErrorWrapped ==
  (xml.kind = "malformed" /\ pc # "input") =>
    /\ pc = "failed"
    /\ thrown.t = "Error"
    /\ thrown # TokenizerError
    /\ thrown.message = <<E_PARSE, TokenizerError.message>>
    /\ thrown.cause = TokenizerError

\* text that is not well-formed has been rejected
C15_Witness == xml.kind = "malformed" /\ pc = "failed" /\ tokenized

\* a decimal numeral: an optional sign, digits, an optional fraction
IsNumeral(text) ==
  LET body == IF text # <<>> /\ Head(text) \in {"+", "-"} THEN Tail(text) ELSE text
  IN /\ \E i \in DOMAIN body : IsDigit(body[i])
     /\ \A i \in DOMAIN body : IsDigit(body[i]) \/ body[i] = "."
     /\ Cardinality({i \in DOMAIN body : body[i] = "."}) <= 1
NumericAttr(e, name) == name \in DOMAIN e.attrs /\ IsNumeral(e.attrs[name])

\* C16: every <error> element under a <checkstyle> root, whichever of its
\* attributes are present and whatever their text, is parsed without raising
\* into an error with line 1 when line is missing or not numeric, no column
\* when column is missing or not numeric, severity warning, message '' and
\* source '' when missing.
C16_ErrorDefaults ==
  (IsCheckstyleDocument /\ pc # "input") =>
    /\ pc # "failed"
    /\ Len(ReportErrors) = Len(InputErrors)
    /\ \A k \in DOMAIN InputErrors :
         LET in == InputErrors[k]
             e == ReportErrors[k]
         IN /\ ~NumericAttr(in, "line") => e.line = Num(1)
            /\ ~NumericAttr(in, "column") => "column" \notin DOMAIN e
            /\ "severity" \notin DOMAIN in.attrs => e.severity = <<"w","a","r","n","i","n","g">>
            /\ "message" \notin DOMAIN in.attrs => e.message = <<>>
            /\ "source" \notin DOMAIN in.attrs => e.source = <<>>

\* C17: convertCheckstyleToSarif raises when a stage raises, with that stage's
\* error and its cause, and then returns no text; it returns text only when
\* both stages completed.
C17_RaisesOrReturns ==
  /\ pc = "failed" =>
       /\ json = Undef
       /\ thrown.t = "Error"
       /\ xml.kind = "malformed" => thrown.cause = TokenizerError
  /\ json # Undef =>
       /\ pc = "returned"
       /\ thrown = Undef
       /\ report # Undef
       /\ sarifLog # Undef
       /\ json.value.runs[1].results = results

\* a call that raised the wrapped tokenizer error
C17_Witness ==
  /\ pc = "failed"
  /\ xml.kind = "malformed"
  /\ thrown.cause = TokenizerError
  /\ json = Undef

\* C18: two calls of convertCheckstyleToSarif with the same XML text and the
\* same indent return the same JSON text, whatever was converted before or
\* between them.
C18_SameInputSameText ==
  \A a, b \in seen :
    (a.xml = b.xml /\ a.indent = b.indent) => a.json = b.json

\* the same text converted twice with another conversion in between
C18_Witness ==
  \E a, b \in seen :
    /\ a.call + 1 < b.call
    /\ a.xml = b.xml
    /\ a.indent = b.indent
    /\ a.xml.root.files # <<>>

\* C19: the log returned by convertToSarif has version 2.1.0, the SARIF 2.1.0
\* schema URI, exactly one run, driver name Checkstyle, informationUri
\* https://checkstyle.org, a results array and columnKind utf16CodeUnits.
C19_FixedLogFields ==
  Converted =>
    /\ sarifLog.version = "2.1.0"
    /\ sarifLog.schema = SARIF_SCHEMA
    /\ Len(sarifLog.runs) = 1
    /\ Driver.name = "Checkstyle"
    /\ Driver.informationUri = "https://checkstyle.org"
    /\ "results" \in DOMAIN Run
    /\ DOMAIN Run.results = 1 .. Len(Run.results)
    /\ "columnKind" \in DOMAIN Run
    /\ Run.columnKind = "utf16CodeUnits"

\* a log with results
C19_Witness == pc = "done" /\ Len(LogResults) = MaxErrors

\* the source of the first error of the report with the given rule identifier
CreatingSource(ruleId) ==
  LET ks == {k \in DOMAIN ReportErrors : extractRuleId(ReportErrors[k].source) = ruleId}
      first == CHOOSE k \in ks : \A j \in ks : k <= j
  IN ReportErrors[first].source

\* C20: a rule descriptor has a helpUri key only when the source of the error
\* that created it was non-empty, helpUri then being
\* https://checkstyle.org/checks/ + lower-cased rule identifier + .html.
C20_HelpUriOnlyWithSource ==
  Converted =>
    \A i \in DOMAIN LogRules :
      LET rule == LogRules[i]
      IN /\ "helpUri" \in DOMAIN rule =>
              /\ CreatingSource(rule.id) # <<>>
              /\ rule.helpUri = HelpUri(rule.id)
         /\ CreatingSource(rule.id) = <<>> => "helpUri" \notin DOMAIN rule

Parsed == pc \in {"parsed", "scan", "done", "returned"}
IsSequence(q) == DOMAIN q = 1 .. Len(q)
ObjectErrorsOf(f) == SelectSeq(f.errors, LAMBDA a : DOMAIN a # {})

\* C21 as stated: in every returned report file is a sequence with one entry
\* per <file> and each file's error is a sequence with one entry per <error>
\* child; a <file> without <error> children parses and converts and
\* contributes no results.
C21_OneEntryPerChild ==
  /\ (IsCheckstyleDocument /\ xml.root.files # <<>> /\ pc # "input") => pc # "failed"
  /\ Parsed =>
       /\ IsSequence(report.file)
       /\ Len(report.file) = Len(xml.root.files)
       /\ \A i \in DOMAIN report.file :
            /\ IsSequence(report.file[i].error)
            /\ Len(report.file[i].error) = Len(xml.root.files[i].errors)

\* C21 amended: as C21, with one entry in a file's error sequence per <error>
\* child that the tokenizer renders as an object; an <error> without attribute
\* and child yields no entry.  The results of the emitted log are as many as
\* these entries, none for a <file> without them.
C21_OneEntryPerObjectChild ==
  /\ (IsCheckstyleDocument /\ xml.root.files # <<>> /\ pc # "input") => pc # "failed"
  /\ Parsed =>
       /\ IsSequence(report.file)
       /\ Len(report.file) = Len(xml.root.files)
       /\ \A i \in DOMAIN report.file :
            /\ IsSequence(report.file[i].error)
            /\ Len(report.file[i].error) = Len(ObjectErrorsOf(xml.root.files[i]))
  /\ Converted => Len(LogResults) = Len(ReportErrors)

\* a <file> without <error> children followed by a <file> with one <error>
C21_Witness ==
  /\ pc = "done"
  /\ Len(xml.root.files) = 2
  /\ xml.root.files[1].errors = <<>>
  /\ Len(xml.root.files[2].errors) = 1
  /\ Len(report.file[1].error) = 0
  /\ Len(report.file[2].error) = 1
  /\ Len(LogResults) = 1

\* C22: convertToSarif, called on a report the parser produced, with or
\* without a toolVersion, never raises, visits each error once (one result per
\* error when it returns) and does return a log.
C22_ConvertTerminates ==
  /\ (pc = "parsed") ~> (pc = "done")
  /\ [](pc = "done" => (sarifLog # Undef /\ Len(results) = Len(ReportErrors)))
  /\ [][(pc \in {"parsed", "scan"}) => (pc' \in {"scan", "done"})]_vars

\* a log returned for a report of several files and errors, with a toolVersion
C22_Witness ==
  /\ pc = "done"
  /\ ~IsUndef(toolVersion)
  /\ Len(report.file) = MaxFiles
  /\ Len(results) = MaxErrors

RuleIdsOf(errors) == { extractRuleId(errors[k].source) : k \in DOMAIN errors }

C24_SeverityLevelTotal ==
  (pc = "done" /\ Len(ReportErrors) = 1) =>
    LET sev == ReportErrors[1].severity
        level == LogResults[1].level
    IN /\ Len(LogResults) = 1
       /\ level \in {"error", "warning", "note", "none"}
       /\ sev = <<"e","r","r","o","r">> => level = "error"
       /\ sev = <<"w","a","r","n","i","n","g">> => level = "warning"
       /\ sev = <<"i","n","f","o">> => level = "note"
       /\ sev = <<"i","g","n","o","r","e">> => level = "none"
       /\ sev \notin { <<"e","r","r","o","r">>, <<"w","a","r","n","i","n","g">>,
                       <<"i","n","f","o">>, <<"i","g","n","o","r","e">> }
            => level = "warning"

\* a report built outside the parser with severity custom has been converted
C24_Witness ==
  /\ pc = "done"
  /\ xml.kind = "none"
  /\ ReportErrors[1].severity = <<"c","u","s","t","o","m">>
  /\ LogResults[1].level = "warning"

\* the error the scan is about to handle
CurrentError == report.file[fi].error[ei]
AtError == pc = "scan" /\ fi >= 1 /\ ei <= Len(report.file[fi].error)

\* C25: rules are deduplicated by derived identifier: an error whose
\* identifier is already registered, whatever its source, adds no descriptor
\* and leaves the registered descriptors as they are, so each descriptor keeps
\* the id and the helpUri given by the first error with its identifier.
C25_DedupByIdentifier ==
  /\ [][(IF AtError THEN MapHas(ruleMap, extractRuleId(CurrentError.source)) ELSE FALSE)
          => (ruleMap' = ruleMap)]_vars
  /\ [](Converted =>
          /\ Len(LogRules) = Cardinality(RuleIdsOf(ReportErrors))
          /\ \A i \in DOMAIN LogRules :
               LET src == CreatingSource(LogRules[i].id)
               IN /\ ("helpUri" \in DOMAIN LogRules[i]) <=> (src # <<>>)
                  /\ src # <<>> => LogRules[i].helpUri = HelpUri(LogRules[i].id))

\* an error without source followed by one whose source ends in UnknownRule:
\* one descriptor, without helpUri
C25_Witness ==
  /\ pc = "done"
  /\ Len(ReportErrors) = 2
  /\ ReportErrors[1].source = <<>>
  /\ ReportErrors[2].source = <<"x",".","U","n","k","n","o","w","n","R","u","l","e">>
  /\ Len(LogRules) = 1
  /\ "helpUri" \notin DOMAIN LogRules[1]

\* the identifiers of the errors in the order in which they are first met
RECURSIVE FirstSeen(_, _)
FirstSeen(errors, acc) ==
  IF errors = <<>> THEN acc
  ELSE LET id == extractRuleId(Head(errors).source)
       IN FirstSeen(Tail(errors),
                    IF \E i \in DOMAIN acc : acc[i] = id THEN acc ELSE Append(acc, id))

\* C26: the driver has a rules key exactly when the report has at least one
\* error (no key otherwise, rather than a key holding undefined), and the
\* descriptors are in the order in which their identifiers are first met.
C26_RulesKeyIffErrors ==
  Converted =>
    /\ ("rules" \in DOMAIN Driver) <=> (Len(ReportErrors) >= 1)
    /\ "rules" \in DOMAIN Driver =>
         /\ Driver.rules.t = "array"
         /\ [i \in DOMAIN Driver.rules.items |-> Driver.rules.items[i].id]
              = FirstSeen(ReportErrors, <<>>)

FileNameOf(f) == IF "name" \in DOMAIN f.attrs THEN f.attrs.name ELSE <<>>
MessageOf(a) == IF "message" \in DOMAIN a THEN a.message ELSE <<>>

RegistryOf(im, indexMap, rules) ==
  IF im = 1 THEN indexMap
  ELSE [i \in DOMAIN rules |-> [key |-> rules[i].key, value |-> i - 1]]
RECURSIVE ErrorsBefore(_)
ErrorsBefore(f) == IF f <= 1 THEN 0 ELSE Len(report.file[f - 1].error) + ErrorsBefore(f - 1)
Scanned == IF fi = 0 THEN 0 ELSE ErrorsBefore(fi) + (ei - 1)

\* C28: at every step of the scan the registry and the rule list agree (as
\* many identifiers as rules, the rule at an identifier's position has that
\* id), there are as many results as errors scanned, and a step only appends
\* to the rule list and never moves a registered identifier.
C28_RegistryAgreesWithRules ==
  /\ [](pc = "scan" =>
          LET registry == RegistryOf(impl, ruleIndexMap, ruleMap)
              ruleList == MapValues(ruleMap)
          IN /\ Len(registry) = Len(ruleList)
             /\ \A i \in DOMAIN registry :
                  /\ registry[i].value + 1 \in DOMAIN ruleList
                  /\ ruleList[registry[i].value + 1].id = registry[i].key
             /\ Len(results) = Scanned)
  /\ [][(pc = "scan" /\ pc' = "scan") =>
          LET before == RegistryOf(impl, ruleIndexMap, ruleMap)
              after == RegistryOf(impl', ruleIndexMap', ruleMap')
          IN /\ Len(ruleMap') >= Len(ruleMap)
             /\ SubSeq(MapValues(ruleMap'), 1, Len(ruleMap)) = MapValues(ruleMap)
             /\ \A i \in DOMAIN before :
                  /\ MapHas(after, before[i].key)
                  /\ MapGet(after, before[i].key) = before[i].value]_vars

\* the scan has registered two rules and is past the second error
C28_Witness ==
  /\ pc = "scan"
  /\ Len(ruleMap) = 2
  /\ Len(results) = 2
  /\ Scanned = 2

\* the zero-based position of an identifier among the keys of the registry
PositionAmongKeys(id) ==
  (CHOOSE i \in DOMAIN ruleMap : ruleMap[i].key = id) - 1

\* the size the registry had when the identifier of result k was registered:
\* the number of distinct identifiers of the results before the first one
\* with that identifier
SizeAtRegistration(k) ==
  LET first == CHOOSE j \in 1..k :
                 /\ results[j].ruleId = results[k].ruleId
                 /\ \A h \in 1..(j - 1) : results[h].ruleId # results[k].ruleId
  IN Cardinality({ results[h].ruleId : h \in 1..(first - 1) })

\* C29: the two ways of assigning ruleIndex agree: where the index is the
\* cached registry size (first definition) it equals the identifier's position
\* among the keys, and where it is the position among the keys (second
\* definition) it equals the registry size at first registration.
C29_RuleIndexSchemesAgree ==
  pc \in {"scan", "done"} =>
    \A k \in DOMAIN results :
      /\ impl = 1 => results[k].ruleIndex = PositionAmongKeys(results[k].ruleId)
      /\ impl = 2 => results[k].ruleIndex = SizeAtRegistration(k)

\* the second definition has given the second rule's index to a result
C29_Witness ==
  /\ pc = "done"
  /\ impl = 2
  /\ Len(results) = MaxErrors
  /\ results[1].ruleIndex = 0
  /\ results[MaxErrors].ruleIndex = 1
  /\ SizeAtRegistration(MaxErrors) = 1

\* C30: no artifact URI of the emitted log contains a backslash, and pathToUri
\* applied to an emitted URI returns it unchanged; a name that starts with
\* file:// gets no further prefix.
C30_UriStable ==
  pc = "done" =>
    \A k \in DOMAIN LogResults :
      LET uri == UriOf(LogResults[k])
      IN /\ \A i \in DOMAIN uri : uri[i] # "\\"
         /\ pathToUri(uri) = uri
         /\ (Len(TheName) >= 7 /\ SubSeq(TheName, 1, 7) = <<"f","i","l","e",":","/","/">>)
              => Len(uri) = Len(TheName)

\* a name that is a file URI with a backslash in it has been converted
C30_Witness ==
  /\ pc = "done"
  /\ TheName = <<"f","i","l","e",":","/","/","/","C",":","\\","a">>
  /\ UriOf(LogResults[1]) = <<"f","i","l","e",":","/","/","/","C",":","/","a">>

====
